---- MODULE Spec2Model ----
(***************************************************************************)
(* Timeline layout engine of media_viz (app/timeline_data.py): the slot    *)
(* allocator _allocate_slots, the fade generators _fade_out_span and       *)
(* _fade_in_span, and the bar assembler _generate_bars.                    *)
(*                                                                         *)
(* Slices are integers; opacities are kept in hundredths (the code rounds  *)
(* every opacity to two decimals).  A week index that is None in the       *)
(* source is the value None below; real week indices are >= 0.             *)
(***************************************************************************)
EXTENDS Integers, Sequences, FiniteSets, TLC

\* ---- program constants (app/timeline_data.py) ----
FADE_WEEKS_IN_PROGRESS == 4
FADE_WEEKS_FINISH_ONLY == 4
MAX_OPACITY == 90
MIN_OPACITY == 0
SLICES_PER_WEEK == 4
MAX_SLOTS == 5

\* ---- bounds of the model ----
\* largest week index of an input span
MaxWeek == 9
\* spans beyond MAX_SLOTS in a run of equal spans
MaxExtra == 2
\* longest run of equal spans in an input of the pipeline specification
MaxRun == 1
\* calls of _allocate_slots a caller makes on one list
MaxCalls == 2
\* slices by which a requested fade duration may exceed the full ramp
MaxOver == 2
\* dates are days 0..MaxDay counted from 2023-12-01
MaxDay == 40

None == -1

VARIABLES
    fade_weeks_in_progress,  \* the fade-out length, in weeks, the module holds
    fade_weeks_finish_only,  \* the fade-in length, in weeks, the module holds
    max_slots,         \* the lane count the module is configured with
    entry,             \* the function the caller invoked
    spans,             \* the caller's span list
    pc,                \* position of the program
    sorted_spans,      \* the list _allocate_slots iterates over
    i,                 \* spans _allocate_slots has processed in this call
    slot_free_at,      \* slot -> slice at which the slot becomes free
    slot_allocations,  \* entry_idx -> slot record
    j,                 \* spans the bar loop of _generate_bars has processed
    span_bars,         \* bars emitted so far
    calls,             \* completed calls of the entry function
    first_result,      \* the value returned by the first call
    args,              \* the arguments of a direct call of a helper function
    result,            \* the value a helper function returned
    weeks,             \* the list _generate_week_axis builds
    current_date,      \* loop variable of _generate_week_axis
    week_index         \* counter of _generate_week_axis

vars == <<fade_weeks_in_progress, fade_weeks_finish_only, max_slots, entry, spans, pc, sorted_spans, i, slot_free_at,
          slot_allocations, j, span_bars, calls, first_result, args, result,
          weeks, current_date, week_index>>

Min2(a, b) == IF a <= b THEN a ELSE b

MinOf(S) == CHOOSE x \in S : \A y \in S : x <= y

\* the empty dict {}
EmptyMap == [k \in {} |-> 0]

\* dict[key] = value
Put(map, key, value) == (key :> value) @@ map

\* ---- the values stored in slot_allocations ----
\* slot_allocations[entry_idx] = slot
IntSlot(s) == [slot |-> s]

\* slot_allocations[entry_idx] = {"fade_out_slot": .., "fade_in_slot": ..}
DictSlot(fo, fi) == [fade_out_slot |-> fo, fade_in_slot |-> fi]

\* isinstance(slot_info, dict)
IsDict(v) == "fade_out_slot" \in DOMAIN v

\* ---- span arithmetic shared by _allocate_slots and _generate_bars ----
\* the module-level values the functions read; the shipped module holds
\* FADE_WEEKS_IN_PROGRESS and FADE_WEEKS_FINISH_ONLY
FadeOutLen == fade_weeks_in_progress * SLICES_PER_WEEK

FadeInLen == fade_weeks_finish_only * SLICES_PER_WEEK

DurationSlices(span) == (span.end_week - span.start_week + 1) * SLICES_PER_WEEK

\* mutant: the cap at the full fade-in length is missing
DurationInUncapped(duration_slices) == duration_slices \div 2

DurationIn(duration_slices) == Min2(duration_slices \div 2, FadeInLen)

\* mutant: the fade-out stops one slice before the fade-in begins
DurationOutShort(duration_slices) ==
    Min2(duration_slices - DurationIn(duration_slices) - 1, FadeOutLen)

DurationOut(duration_slices) ==
    Min2(duration_slices - DurationIn(duration_slices), FadeOutLen)

HasStart(span) == span.start_week # None

HasEnd(span) == span.end_week # None

\* mutant: the test is `<=`, a span of exactly the two fade lengths is split
IsLongInclusive(span) ==
    /\ HasStart(span) /\ HasEnd(span)
    /\ DurationOut(DurationSlices(span)) + DurationIn(DurationSlices(span))
         <= DurationSlices(span)

\* the test `duration_out + duration_in < duration_slices`
IsLong(span) ==
    /\ HasStart(span) /\ HasEnd(span)
    /\ DurationOut(DurationSlices(span)) + DurationIn(DurationSlices(span))
         < DurationSlices(span)

MaxOf(S) == CHOOSE x \in S : \A y \in S : x >= y

\* mutant: the comparison is strict, a slot free exactly at t is passed over
FirstFitStrict(free, t) ==
    LET ok == {s \in DOMAIN free : free[s] < t}
    IN  IF ok = {} THEN None ELSE MinOf(ok)

\* mutant: the loop has no break, the last slot that is free wins
FirstFitNoBreak(free, t) ==
    LET ok == {s \in DOMAIN free : free[s] <= t}
    IN  IF ok = {} THEN None ELSE MaxOf(ok)

\* mutant: a slot that frees up during the span's first week is taken
FirstFitEarly(free, t) ==
    LET ok == {s \in DOMAIN free : free[s] <= t + SLICES_PER_WEEK}
    IN  IF ok = {} THEN None ELSE MinOf(ok)

\* mutant: the search runs over range(1, MAX_SLOTS) and never looks at slot 0
FirstFitSkipsZero(free, t) ==
    LET ok == {s \in DOMAIN free : s >= 1 /\ free[s] <= t}
    IN  IF ok = {} THEN None ELSE MinOf(ok)

\* mutant: among the slots free at t the one that became free last is taken
FirstFitLatestFree(free, t) ==
    LET ok == {s \in DOMAIN free : free[s] <= t}
        latest == {s \in ok : \A o \in ok : free[o] <= free[s]}
    IN  IF ok = {} THEN None ELSE MinOf(latest)

\* for s in range(MAX_SLOTS): if slot_free_at[s] <= t: ... break
FirstFit(free, t) ==
    LET ok == {s \in DOMAIN free : free[s] <= t}
    IN  IF ok = {} THEN None ELSE MinOf(ok)

\* slot_free_at[slot] = value, when a slot was found
Reserve(free, slot, value) ==
    IF slot = None THEN free ELSE [free EXCEPT ![slot] = value]

\* mutant: the fade-in half is given a slot but slot_free_at is not moved to
\* the end of the fade-in
AllocateLongFadeInUnreserved(free, alloc, span) ==
    LET start_slice == span.start_week * SLICES_PER_WEEK
        duration_slices == DurationSlices(span)
        duration_in == DurationIn(duration_slices)
        duration_out == DurationOut(duration_slices)
        fade_out_end == start_slice + duration_out
        fade_in_start == (span.end_week + 1) * SLICES_PER_WEEK - duration_in
        fade_out_slot == FirstFit(free, start_slice)
        free1 == Reserve(free, fade_out_slot, fade_out_end)
        fade_in_slot == FirstFit(free1, fade_in_start)
    IN  [free |-> free1,
         alloc |-> IF fade_out_slot # None /\ fade_in_slot # None
                   THEN Put(alloc, span.entry_idx,
                            DictSlot(fade_out_slot, fade_in_slot))
                   ELSE alloc]

\* mutant: the pair is stored as soon as one of the two halves found a slot
AllocateLongPartial(free, alloc, span) ==
    LET start_slice == span.start_week * SLICES_PER_WEEK
        duration_slices == DurationSlices(span)
        duration_in == DurationIn(duration_slices)
        duration_out == DurationOut(duration_slices)
        fade_out_end == start_slice + duration_out
        fade_in_start == (span.end_week + 1) * SLICES_PER_WEEK - duration_in
        fade_out_slot == FirstFit(free, start_slice)
        free1 == Reserve(free, fade_out_slot, fade_out_end)
        fade_in_slot == FirstFit(free1, fade_in_start)
        free2 == Reserve(free1, fade_in_slot, fade_in_start + duration_in)
    IN  [free |-> free2,
         alloc |-> IF fade_out_slot # None \/ fade_in_slot # None
                   THEN Put(alloc, span.entry_idx,
                            DictSlot(fade_out_slot, fade_in_slot))
                   ELSE alloc]

\* the long-span branch of _allocate_slots
AllocateLong(free, alloc, span) ==
    LET start_slice == span.start_week * SLICES_PER_WEEK
        duration_slices == DurationSlices(span)
        duration_in == DurationIn(duration_slices)
        duration_out == DurationOut(duration_slices)
        fade_out_end == start_slice + duration_out
        fade_in_start == (span.end_week + 1) * SLICES_PER_WEEK - duration_in
        fade_out_slot == FirstFit(free, start_slice)
        free1 == Reserve(free, fade_out_slot, fade_out_end)
        fade_in_slot == FirstFit(free1, fade_in_start)
        free2 == Reserve(free1, fade_in_slot, fade_in_start + duration_in)
    IN  [free |-> free2,
         alloc |-> IF fade_out_slot # None /\ fade_in_slot # None
                   THEN Put(alloc, span.entry_idx,
                            DictSlot(fade_out_slot, fade_in_slot))
                   ELSE alloc]

\* the three single-slot branches of _allocate_slots
AllocateSimple(free, alloc, span, start_slice, end_slice) ==
    LET slot == FirstFit(free, start_slice)
    IN  [free |-> Reserve(free, slot, end_slice),
         alloc |-> IF slot # None
                   THEN Put(alloc, span.entry_idx, IntSlot(slot))
                   ELSE alloc]

\* one iteration of `for span in spans` in _allocate_slots
AllocateSpan(free, alloc, span) ==
    IF ~HasStart(span) /\ ~HasEnd(span)
    THEN [free |-> free, alloc |-> alloc]
    ELSE IF HasStart(span) /\ HasEnd(span)
    THEN IF IsLong(span)
         THEN AllocateLong(free, alloc, span)
         ELSE AllocateSimple(free, alloc, span,
                  span.start_week * SLICES_PER_WEEK,
                  span.start_week * SLICES_PER_WEEK + DurationSlices(span))
    ELSE IF HasStart(span)
    THEN AllocateSimple(free, alloc, span,
             span.start_week * SLICES_PER_WEEK,
             span.start_week * SLICES_PER_WEEK + FadeOutLen)
    ELSE AllocateSimple(free, alloc, span,
             (span.end_week + 1) * SLICES_PER_WEEK - FadeInLen,
             (span.end_week + 1) * SLICES_PER_WEEK)


\* ---- _generate_bars: the sort that precedes allocation ----
\* first component of the sort key
SortKey1(span) == IF HasStart(span) THEN span.start_week ELSE span.end_week

\* second component of the sort key; Inf stands for float("inf")
Inf == 1000000

SortKey2(span) == IF HasEnd(span) THEN span.end_week ELSE Inf

\* tuple comparison key(a) <= key(b)
KeyLeq(a, b) ==
    \/ SortKey1(a) < SortKey1(b)
    \/ SortKey1(a) = SortKey1(b) /\ SortKey2(a) <= SortKey2(b)

\* insert x after every element whose key is <= key(x)
RECURSIVE InsertSorted(_, _)
InsertSorted(x, seq) ==
    IF seq = <<>> THEN <<x>>
    ELSE IF KeyLeq(Head(seq), x)
         THEN <<Head(seq)>> \o InsertSorted(x, Tail(seq))
         ELSE <<x>> \o seq

\* a span whose start_week and end_week are both None
Malformed(span) == ~HasStart(span) /\ ~HasEnd(span)

\* the key of a malformed span is (None, inf), the key of any other span starts
\* with an int: sorted() compares the two with `<` and raises TypeError as
\* soon as the list holds one of each (equal keys are never ordered by `<`)
SortRaises(seq) ==
    /\ \E k \in 1..Len(seq) : Malformed(seq[k])
    /\ \E k \in 1..Len(seq) : ~Malformed(seq[k])

\* sorted(spans, key=...): a stable sort
RECURSIVE SortSpans(_)
SortSpans(seq) ==
    IF seq = <<>> THEN <<>>
    ELSE InsertSorted(seq[Len(seq)], SortSpans(SubSeq(seq, 1, Len(seq) - 1)))

\* ---- fade profiles ----
\* round(np.linspace(a, b, n)[k], 2) in hundredths, k counted from 0
Linspace(a, b, n, k) ==
    LET num == a * (n - 1 - k) + b * k
        den == n - 1
    IN  (2 * num + den) \div (2 * den)

\* _add_span_bar: one bar of height 1
Bar(template, bar_base, opacity) ==
    [entry_id |-> template.entry_id, slot |-> template.slot,
     bar_base |-> bar_base, bar_y |-> 1, opacity |-> opacity]

\* mutant: the ramp is built from MIN_OPACITY up to MAX_OPACITY
FadeOutSpanRising(template, start_week, duration_slices) ==
    LET bar_start == start_week * SLICES_PER_WEEK
        n == IF duration_slices >= 0
             THEN Min2(duration_slices, FadeOutLen)
             ELSE IF FadeOutLen + duration_slices > 0
                  THEN FadeOutLen + duration_slices ELSE 0
    IN  [k \in 1..n |->
            Bar(template, bar_start + (k - 1),
                Linspace(MIN_OPACITY, MAX_OPACITY, FadeOutLen, k - 1))]

\* _fade_out_span: opacities[:duration_slices] of the full ramp
FadeOutSpan(template, start_week, duration_slices) ==
    LET bar_start == start_week * SLICES_PER_WEEK
        n == IF duration_slices >= 0
             THEN Min2(duration_slices, FadeOutLen)
             ELSE IF FadeOutLen + duration_slices > 0
                  THEN FadeOutLen + duration_slices ELSE 0
    IN  [k \in 1..n |->
            Bar(template, bar_start + (k - 1),
                Linspace(MAX_OPACITY, MIN_OPACITY, FadeOutLen, k - 1))]

\* mutant: the slice is opacities[:duration_slices], the low end of the ramp
FadeInSpanHead(template, end_week, duration_slices) ==
    LET bar_start == (end_week + 1) * SLICES_PER_WEEK - duration_slices
        n == IF duration_slices >= 0
             THEN Min2(duration_slices, FadeInLen)
             ELSE IF FadeInLen + duration_slices > 0
                  THEN FadeInLen + duration_slices ELSE 0
    IN  [k \in 1..n |->
            Bar(template, bar_start + (k - 1),
                Linspace(MIN_OPACITY, MAX_OPACITY, FadeInLen, k - 1))]

\* mutant: the ramp is anchored one week early, at the first slice of end_week
FadeInSpanEarly(template, end_week, duration_slices) ==
    LET bar_start == end_week * SLICES_PER_WEEK - duration_slices
        first == IF duration_slices > 0
                 THEN (IF duration_slices >= FadeInLen
                       THEN 0 ELSE FadeInLen - duration_slices)
                 ELSE Min2(0 - duration_slices, FadeInLen)
        n == FadeInLen - first
    IN  [k \in 1..n |->
            Bar(template, bar_start + (k - 1),
                Linspace(MIN_OPACITY, MAX_OPACITY, FadeInLen, first + k - 1))]

\* _fade_in_span: opacities[-duration_slices:] of the full ramp
FadeInSpan(template, end_week, duration_slices) ==
    LET bar_start == (end_week + 1) * SLICES_PER_WEEK - duration_slices
        first == IF duration_slices > 0
                 THEN (IF duration_slices >= FadeInLen
                       THEN 0 ELSE FadeInLen - duration_slices)
                 ELSE Min2(0 - duration_slices, FadeInLen)
        n == FadeInLen - first
    IN  [k \in 1..n |->
            Bar(template, bar_start + (k - 1),
                Linspace(MIN_OPACITY, MAX_OPACITY, FadeInLen, first + k - 1))]

\* np.linspace(.., .., n) raises ValueError for n < 0: the full-length call of
\* a one-sided span reaches it when the module's fade length is negative (a
\* two-sided span calls a fade only with a duration capped by that length)
FadeRaises(alloc, span) ==
    /\ span.entry_idx \in DOMAIN alloc
    /\ \/ HasStart(span) /\ ~HasEnd(span) /\ FadeOutLen < 0
       \/ ~HasStart(span) /\ HasEnd(span) /\ FadeInLen < 0

\* the body of `for span in spans` in _generate_bars: the bars of one span
BarsOfSpan(alloc, span) ==
    IF ~HasStart(span) /\ ~HasEnd(span) THEN <<>>
    ELSE IF span.entry_idx \notin DOMAIN alloc THEN <<>>
    ELSE
    LET slot_info == alloc[span.entry_idx]
        tmpl(s) == [entry_id |-> span.entry_idx, slot |-> s]
    IN  IF HasStart(span) /\ HasEnd(span)
        THEN LET duration_slices == DurationSlices(span)
                 duration_in == DurationIn(duration_slices)
                 duration_out == DurationOut(duration_slices)
                 out_slot == IF IsDict(slot_info)
                             THEN slot_info.fade_out_slot ELSE slot_info.slot
                 in_slot == IF IsDict(slot_info)
                            THEN slot_info.fade_in_slot ELSE slot_info.slot
             IN  (IF duration_out > 0
                  THEN FadeOutSpan(tmpl(out_slot), span.start_week, duration_out)
                  ELSE <<>>)
                 \o
                 (IF duration_in > 0
                  THEN FadeInSpan(tmpl(in_slot), span.end_week, duration_in)
                  ELSE <<>>)
        ELSE IF HasStart(span)
        THEN FadeOutSpan(tmpl(slot_info.slot), span.start_week, FadeOutLen)
        ELSE FadeInSpan(tmpl(slot_info.slot), span.end_week, FadeInLen)


\* ---- inputs ----
Weeks == 0..MaxWeek

\* <<start_week, end_week>> of a span with at least one of the two set; a
\* two-sided span may end before it starts (the earliest start date of an
\* entry can lie after its latest finish date)
SpanShapes ==
    (Weeks \X Weeks) \cup (Weeks \X {None}) \cup ({None} \X Weeks)

\* the span list with entry_idx = position, as extract_timeline_spans numbers it
MkSpans(shapes) ==
    [k \in 1..Len(shapes) |->
        [entry_idx |-> k - 1, start_week |-> shapes[k][1],
         end_week |-> shapes[k][2]]]

\* every pair a span can carry, the pair without any date included
AnyShapes == SpanShapes \cup {<<None, None>>}

\* two-sided spans, and those among them that end no earlier than they start
TwoSided == Weeks \X Weeks

Proper == {p \in TwoSided : p[1] <= p[2]}

Copies(x, n) == [k \in 1..n |-> x]

\* lists made of a run of m <= maxm equal spans x, at most one further span y,
\* and n <= maxn more copies of x
BlockLists(X, Y, maxm, maxn) ==
    {Copies(x, m) \o t \o Copies(x, n) :
        x \in X, m \in 0..maxm, t \in {<<>>} \cup {<<y>> : y \in Y},
        n \in 0..maxn}

\* three two-sided spans in start order: the second overlaps the first, the
\* third starts after both have ended
ExampleLists ==
    {<<a, b, c>> : a \in Proper, b \in Proper, c \in Proper} \cap
    {l \in Seq(Proper) : Len(l) = 3 /\ l[1][1] <= l[2][1] /\ l[2][1] <= l[1][2]
                           /\ l[3][1] > l[1][2] /\ l[3][1] > l[2][2]}

\* the arguments of a direct call of one of the two fade generators
FadeArgs ==
    [week : Weeks, duration_slices : 0..(MaxOf({FadeOutLen, FadeInLen}) + MaxOver)]

\* the span_bar_template handed to a fade generator
Template == [entry_id |-> 0, slot |-> 0]

\* slot_free_at = [0] * MAX_SLOTS
AllFree == [s \in 0..(max_slots - 1) |-> 0]

\* the layout functions take the span list and nothing else
NoArgs == <<>>

\* the module as shipped
ShippedConfig ==
    /\ fade_weeks_in_progress = FADE_WEEKS_IN_PROGRESS
    /\ fade_weeks_finish_only = FADE_WEEKS_FINISH_ONLY

\* the locals of _generate_week_axis before it is called
NoAxis ==
    /\ weeks = <<>>
    /\ current_date = None
    /\ week_index = 0

InitWith(lanes, inputs, entries) ==
    /\ ShippedConfig
    /\ NoAxis
    /\ args = NoArgs
    /\ result = None
    /\ max_slots \in lanes
    /\ spans \in inputs
    /\ entry \in entries
    /\ pc = "start"
    /\ sorted_spans = <<>>
    /\ i = 0
    /\ slot_free_at = <<>>
    /\ slot_allocations = EmptyMap
    /\ j = 0
    /\ span_bars = <<>>
    /\ calls = 0
    /\ first_result = EmptyMap

\* ---- actions ----
\* a caller invokes _allocate_slots(spans): fresh map, all slots free
AllocateSlotsCall ==
    /\ pc = "start" /\ entry = "_allocate_slots"
    /\ sorted_spans' = spans
    /\ slot_allocations' = EmptyMap
    /\ slot_free_at' = AllFree
    /\ i' = 0
    /\ pc' = "allocate"
    /\ UNCHANGED <<weeks, current_date, week_index, args, result, fade_weeks_in_progress, fade_weeks_finish_only, max_slots, entry, spans, j, span_bars, calls, first_result>>

\* _generate_bars(spans) sorts the spans and calls _allocate_slots(sorted_spans);
\* a TypeError of the sort leaves _generate_bars before anything else happened
GenerateBarsCall ==
    /\ pc = "start" /\ entry = "_generate_bars"
    /\ IF SortRaises(spans)
       THEN /\ pc' = "error"
            /\ UNCHANGED <<sorted_spans, slot_allocations, slot_free_at, i>>
       ELSE /\ sorted_spans' = SortSpans(spans)
            /\ slot_allocations' = EmptyMap
            /\ slot_free_at' = AllFree
            /\ i' = 0
            /\ pc' = "allocate"
    /\ UNCHANGED <<weeks, current_date, week_index, args, result, fade_weeks_in_progress, fade_weeks_finish_only, max_slots, entry, spans, j, span_bars, calls, first_result>>

\* mutant: the loop returns at the first span it cannot place
AllocateSlotsStepStopsAtDrop ==
    /\ pc = "allocate" /\ i < Len(sorted_spans)
    /\ LET r == AllocateSpan(slot_free_at, slot_allocations, sorted_spans[i + 1])
       IN  /\ slot_free_at' = r.free
           /\ slot_allocations' = r.alloc
           /\ i' = IF sorted_spans[i + 1].entry_idx \in DOMAIN r.alloc
                   THEN i + 1 ELSE Len(sorted_spans)
    /\ UNCHANGED <<weeks, current_date, week_index, args, result, fade_weeks_in_progress, fade_weeks_finish_only, max_slots, entry, spans, pc, sorted_spans, j, span_bars,
                   calls, first_result>>

\* one iteration of the loop of _allocate_slots
AllocateSlotsStep ==
    /\ pc = "allocate" /\ i < Len(sorted_spans)
    /\ LET r == AllocateSpan(slot_free_at, slot_allocations, sorted_spans[i + 1])
       IN  /\ slot_free_at' = r.free
           /\ slot_allocations' = r.alloc
    /\ i' = i + 1
    /\ UNCHANGED <<weeks, current_date, week_index, args, result, fade_weeks_in_progress, fade_weeks_finish_only, max_slots, entry, spans, pc, sorted_spans, j, span_bars,
                   calls, first_result>>

\* return slot_allocations, to the caller of _allocate_slots
AllocateSlotsReturn ==
    /\ pc = "allocate" /\ i = Len(sorted_spans)
    /\ entry = "_allocate_slots"
    /\ pc' = "done"
    /\ calls' = calls + 1
    /\ first_result' = IF calls = 0 THEN slot_allocations ELSE first_result
    /\ UNCHANGED <<weeks, current_date, week_index, args, result, fade_weeks_in_progress, fade_weeks_finish_only, max_slots, entry, spans, sorted_spans, i, slot_free_at,
                   slot_allocations, j, span_bars>>

\* return slot_allocations, to _generate_bars, which starts its bar loop
AllocateSlotsReturnToBars ==
    /\ pc = "allocate" /\ i = Len(sorted_spans)
    /\ entry = "_generate_bars"
    /\ pc' = "bars"
    /\ j' = 0
    /\ span_bars' = <<>>
    /\ UNCHANGED <<weeks, current_date, week_index, args, result, fade_weeks_in_progress, fade_weeks_finish_only, max_slots, entry, spans, sorted_spans, i, slot_free_at,
                   slot_allocations, calls, first_result>>

\* mutant: the test `entry_idx not in slot_allocations` is missing and a span
\* without a slot is drawn on slot 0
GenerateBarsStepNoSkip ==
    /\ pc = "bars" /\ j < Len(spans)
    /\ LET id == spans[j + 1].entry_idx
           alloc == IF id \in DOMAIN slot_allocations THEN slot_allocations
                    ELSE Put(slot_allocations, id, IntSlot(0))
       IN  span_bars' = span_bars \o BarsOfSpan(alloc, spans[j + 1])
    /\ j' = j + 1
    /\ UNCHANGED <<weeks, current_date, week_index, args, result, fade_weeks_in_progress, fade_weeks_finish_only, max_slots, entry, spans, pc, sorted_spans, i, slot_free_at,
                   slot_allocations, calls, first_result>>

\* one iteration of `for span in spans` in _generate_bars; a ValueError of
\* np.linspace leaves _generate_bars with the bars emitted so far lost
GenerateBarsStep ==
    /\ pc = "bars" /\ j < Len(spans)
    /\ IF FadeRaises(slot_allocations, spans[j + 1])
       THEN /\ pc' = "error"
            /\ UNCHANGED <<span_bars, j>>
       ELSE /\ span_bars' = span_bars \o BarsOfSpan(slot_allocations, spans[j + 1])
            /\ j' = j + 1
            /\ pc' = pc
    /\ UNCHANGED <<weeks, current_date, week_index, args, result,
                   fade_weeks_in_progress, fade_weeks_finish_only, max_slots,
                   entry, spans, sorted_spans, i, slot_free_at,
                   slot_allocations, calls, first_result>>

\* return bars_df
GenerateBarsReturn ==
    /\ pc = "bars" /\ j = Len(spans)
    /\ pc' = "done"
    /\ UNCHANGED <<weeks, current_date, week_index, args, result, fade_weeks_in_progress, fade_weeks_finish_only, max_slots, entry, spans, sorted_spans, i, slot_free_at,
                   slot_allocations, j, span_bars, calls, first_result>>

\* mutant: slot_free_at lives at module level and survives the call
AllocateSlotsCallAgainStale ==
    /\ pc = "done" /\ entry = "_allocate_slots" /\ calls < MaxCalls
    /\ sorted_spans' = spans
    /\ slot_allocations' = EmptyMap
    /\ i' = 0
    /\ pc' = "allocate"
    /\ UNCHANGED <<weeks, current_date, week_index, args, result, fade_weeks_in_progress, fade_weeks_finish_only, max_slots, entry, spans, slot_free_at, j, span_bars, calls,
                   first_result>>

\* the caller invokes _allocate_slots again on the same list
AllocateSlotsCallAgain ==
    /\ pc = "done" /\ entry = "_allocate_slots" /\ calls < MaxCalls
    /\ sorted_spans' = spans
    /\ slot_allocations' = EmptyMap
    /\ slot_free_at' = AllFree
    /\ i' = 0
    /\ pc' = "allocate"
    /\ UNCHANGED <<weeks, current_date, week_index, args, result, fade_weeks_in_progress, fade_weeks_finish_only, max_slots, entry, spans, j, span_bars, calls, first_result>>

\* _fade_out_span(span_bars, span_bar_template, start_week, duration_slices)
FadeOutSpanCall ==
    /\ pc \in {"start", "done"} /\ entry = "_fade_out_span" /\ calls < MaxCalls
    /\ span_bars' = span_bars \o
           FadeOutSpan(Template, args.week, args.duration_slices)
    /\ calls' = calls + 1
    /\ pc' = "done"
    /\ UNCHANGED <<weeks, current_date, week_index, args, result, fade_weeks_in_progress, fade_weeks_finish_only, max_slots, entry, spans, sorted_spans, i,
                   slot_free_at, slot_allocations, j, first_result>>

\* _fade_in_span(span_bars, span_bar_template, end_week, duration_slices)
FadeInSpanCall ==
    /\ pc \in {"start", "done"} /\ entry = "_fade_in_span" /\ calls < MaxCalls
    /\ span_bars' = span_bars \o
           FadeInSpan(Template, args.week, args.duration_slices)
    /\ calls' = calls + 1
    /\ pc' = "done"
    /\ UNCHANGED <<weeks, current_date, week_index, args, result, fade_weeks_in_progress, fade_weeks_finish_only, max_slots, entry, spans, sorted_spans, i,
                   slot_free_at, slot_allocations, j, first_result>>

\* ---- dates: a date is its number of days after 2023-12-01, a Friday ----
Days == 0..MaxDay

\* datetime.weekday(): Monday is 0, Sunday is 6
Weekday(date) == (4 + date) % 7

\* datetime.year
YearOf(date) == IF date <= 30 THEN 2023 ELSE 2024

\* datetime.strftime("%b"); 2024 is a leap year
MonthLabel(date) ==
    IF date < 0 THEN "Nov"
    ELSE IF date <= 30 THEN "Dec"
    ELSE IF date <= 61 THEN "Jan"
    ELSE IF date <= 90 THEN "Feb"
    ELSE "Mar"

\* ---- compute_week_index (app/utils.py) ----
\* mutant: a Sunday is not moved to the following Monday
ComputeWeekIndexNoShift(entry_date, min_date) == (entry_date - min_date) \div 7

\* a Sunday is moved to the next day; then delta.days // 7, rounding down
ComputeWeekIndex(entry_date, min_date) ==
    LET shifted == IF Weekday(entry_date) = 6 THEN entry_date + 1 ELSE entry_date
    IN  (shifted - min_date) \div 7

\* compute_week_index(entry_date, min_date), the first call of a caller
ComputeWeekIndexCall ==
    /\ pc = "start" /\ entry = "compute_week_index"
    /\ result' = ComputeWeekIndex(args.entry_date, args.min_date)
    /\ first_result' = result'
    /\ calls' = calls + 1
    /\ pc' = "done"
    /\ UNCHANGED <<weeks, current_date, week_index, args, fade_weeks_in_progress, fade_weeks_finish_only, max_slots, entry,
                   spans, sorted_spans, i, slot_free_at, slot_allocations, j,
                   span_bars>>

\* the caller asks again for a date that is not earlier, same min_date
ComputeWeekIndexCallLater ==
    /\ pc = "done" /\ entry = "compute_week_index" /\ calls < MaxCalls
    /\ \E later \in Days :
          /\ later >= args.entry_date
          /\ args' = [args EXCEPT !.entry_date = later]
          /\ result' = ComputeWeekIndex(later, args.min_date)
    /\ calls' = calls + 1
    /\ UNCHANGED <<weeks, current_date, week_index, fade_weeks_in_progress, fade_weeks_finish_only, max_slots, entry, spans, pc,
                   sorted_spans, i, slot_free_at, slot_allocations, j, span_bars,
                   first_result>>

\* ---- _generate_week_axis ----
\* weeks = []; current_date = min_date; week_index = 0
GenerateWeekAxisCall ==
    /\ pc = "start" /\ entry = "_generate_week_axis"
    /\ weeks' = <<>>
    /\ current_date' = args.min_date
    /\ week_index' = 0
    /\ pc' = "axis"
    /\ UNCHANGED <<args, result, fade_weeks_in_progress, fade_weeks_finish_only, max_slots, entry, spans, sorted_spans, i,
                   slot_free_at, slot_allocations, j, span_bars, calls,
                   first_result>>

\* mutant: the loop stops before the week that begins on max_date
WhileCurrentBeforeMax == current_date < args.max_date

\* the loop test `current_date <= max_date`
WhileCurrentUpToMax == current_date <= args.max_date

\* one pass of the while loop: SLICES_PER_WEEK descriptors, then 7 days on
GenerateWeekAxisStep ==
    /\ pc = "axis" /\ WhileCurrentUpToMax
    /\ weeks' = weeks \o
           [k \in 1..SLICES_PER_WEEK |->
               [week_index |-> week_index + k - 1,
                year |-> YearOf(current_date),
                week_label |-> MonthLabel(current_date)]]
    /\ week_index' = week_index + SLICES_PER_WEEK
    /\ current_date' = current_date + 7
    /\ UNCHANGED <<args, result, fade_weeks_in_progress, fade_weeks_finish_only, max_slots, entry, spans, pc, sorted_spans, i,
                   slot_free_at, slot_allocations, j, span_bars, calls,
                   first_result>>

\* return pd.DataFrame(weeks)
GenerateWeekAxisReturn ==
    /\ pc = "axis" /\ ~WhileCurrentUpToMax
    /\ result' = weeks
    /\ pc' = "done"
    /\ UNCHANGED <<weeks, current_date, week_index, args, fade_weeks_in_progress, fade_weeks_finish_only, max_slots, entry,
                   spans, sorted_spans, i, slot_free_at, slot_allocations, j,
                   span_bars, calls, first_result>>

\* ---- _get_timeline_range, extract_timeline_spans (app/media_entries.py) ----
\* the last day an entry of the extraction runs can carry
MaxEntryDay == 12

EntryDays == 0..MaxEntryDay

\* a started_dates or finished_dates list of at most n dates
DateLists(n) == {dates \in SUBSET EntryDays : Cardinality(dates) <= n}

\* entries with started_dates and finished_dates of at most n dates each
EntriesWith(n) == [started_dates : DateLists(n), finished_dates : DateLists(n)]

\* no entry, one entry with up to two dates a list, two entries with up to one
EntryLists ==
    {<<>>} \cup {<<e>> : e \in EntriesWith(2)}
           \cup {<<e, f>> : e \in EntriesWith(1), f \in EntriesWith(1)}

\* all_dates = all_started_dates + all_finished_dates
AllDates(entries) ==
    UNION {entries[k].started_dates \cup entries[k].finished_dates :
              k \in 1..Len(entries)}

\* _get_timeline_range: (None, None) without dates; otherwise the earliest and
\* the latest date, each moved back by its weekday() to the Monday of its week
GetTimelineRange(entries) ==
    IF AllDates(entries) = {}
    THEN [min_date |-> None, max_date |-> None]
    ELSE LET min_date == MinOf(AllDates(entries))
             max_date == MaxOf(AllDates(entries))
         IN  [min_date |-> min_date - Weekday(min_date),
              max_date |-> max_date - Weekday(max_date)]

\* extract_timeline_spans(entries) up to its loop: `if not entries` returns
\* at once, otherwise min_date, max_date = _get_timeline_range(entries)
ExtractTimelineSpansCall ==
    /\ pc = "start" /\ entry = "extract_timeline_spans"
    /\ spans' = <<>>
    /\ j' = 0
    /\ IF args.entries = <<>>
       THEN /\ pc' = "extracted"
            /\ UNCHANGED args
       ELSE /\ pc' = "extract"
            /\ args' = [args EXCEPT
                   !.min_date = GetTimelineRange(args.entries).min_date,
                   !.max_date = GetTimelineRange(args.entries).max_date]
    /\ UNCHANGED <<weeks, current_date, week_index, result,
                   fade_weeks_in_progress, fade_weeks_finish_only, max_slots,
                   entry, sorted_spans, i, slot_free_at, slot_allocations,
                   span_bars, calls, first_result>>

\* the span of one entry: the earliest start and the latest finish, with
\* their week indices relative to min_date
SpanOfEntry(entry_idx, e, min_date) ==
    LET has_start == e.started_dates # {}
        has_end == e.finished_dates # {}
        min_start_date == IF has_start THEN MinOf(e.started_dates) ELSE None
        max_end_date == IF has_end THEN MaxOf(e.finished_dates) ELSE None
    IN  [entry_idx |-> entry_idx,
         start_date |-> min_start_date,
         end_date |-> max_end_date,
         start_week |-> IF has_start
                        THEN ComputeWeekIndex(min_start_date, min_date) ELSE None,
         end_week |-> IF has_end
                      THEN ComputeWeekIndex(max_end_date, min_date) ELSE None]

\* one pass of `for entry_idx, entry in enumerate(entries)`: an entry without
\* dates is skipped
ExtractTimelineSpansStep ==
    /\ pc = "extract" /\ j < Len(args.entries)
    /\ LET e == args.entries[j + 1]
       IN  spans' = IF e.started_dates = {} /\ e.finished_dates = {}
                    THEN spans
                    ELSE Append(spans, SpanOfEntry(j, e, args.min_date))
    /\ j' = j + 1
    /\ UNCHANGED <<weeks, current_date, week_index, args, result,
                   fade_weeks_in_progress, fade_weeks_finish_only, max_slots,
                   entry, pc, sorted_spans, i, slot_free_at, slot_allocations,
                   span_bars, calls, first_result>>

\* return spans, min_date, max_date
ExtractTimelineSpansReturn ==
    /\ pc = "extract" /\ j = Len(args.entries)
    /\ pc' = "extracted"
    /\ UNCHANGED <<weeks, current_date, week_index, args, result,
                   fade_weeks_in_progress, fade_weeks_finish_only, max_slots,
                   entry, spans, sorted_spans, i, slot_free_at,
                   slot_allocations, j, span_bars, calls, first_result>>

\* prepare_timeline_data: weeks_df = _generate_week_axis(min_date, max_date)
\* with the range of the extraction; `None <= None` raises TypeError
PrepareTimelineDataAxis ==
    /\ pc = "extracted" /\ entry = "extract_timeline_spans"
    /\ IF args.min_date = None
       THEN /\ pc' = "error"
            /\ UNCHANGED <<weeks, current_date, week_index>>
       ELSE /\ weeks' = <<>>
            /\ current_date' = args.min_date
            /\ week_index' = 0
            /\ pc' = "axis"
    /\ UNCHANGED <<args, result, fade_weeks_in_progress,
                   fade_weeks_finish_only, max_slots, entry, spans,
                   sorted_spans, i, slot_free_at, slot_allocations, j,
                   span_bars, calls, first_result>>

\* ---- specifications ----
\* _allocate_slots called once on a list that can fill every slot
NextAllocate ==
    \/ AllocateSlotsCall
    \/ AllocateSlotsStep
    \/ AllocateSlotsReturn

Init ==
    InitWith({MAX_SLOTS},
             {MkSpans(l) :
                 l \in BlockLists(TwoSided, SpanShapes, MAX_SLOTS + MaxExtra, 1)},
             {"_allocate_slots"})

Spec == Init /\ [][NextAllocate]_vars

\* both entry points on short lists, _allocate_slots called up to MaxCalls times
InitPipeline ==
    InitWith({MAX_SLOTS},
             {MkSpans(l) : l \in BlockLists(SpanShapes, SpanShapes, MaxRun, 0)},
             {"_allocate_slots", "_generate_bars"})

NextPipeline ==
    \/ NextAllocate
    \/ GenerateBarsCall
    \/ AllocateSlotsReturnToBars
    \/ GenerateBarsStep
    \/ GenerateBarsReturn
    \/ AllocateSlotsCallAgain

SpecPipeline == InitPipeline /\ [][NextPipeline]_vars

\* _generate_bars on a list that can fill every slot
InitBars ==
    InitWith({MAX_SLOTS},
             {MkSpans(l) :
                 l \in BlockLists(Proper, SpanShapes, MAX_SLOTS + MaxExtra, 0)},
             {"_generate_bars"})

NextBars ==
    \/ GenerateBarsCall
    \/ AllocateSlotsStep
    \/ AllocateSlotsReturnToBars
    \/ GenerateBarsStep
    \/ GenerateBarsReturn

SpecBars == InitBars /\ [][NextBars]_vars

\* _generate_bars on short lists that may hold spans without any date
InitMalformed ==
    InitWith({MAX_SLOTS},
             {MkSpans(l) : l \in BlockLists(AnyShapes, AnyShapes, MaxRun, 0)},
             {"_generate_bars"})

SpecMalformed == InitMalformed /\ [][NextBars]_vars

\* the fade generators called directly, up to MaxCalls times on one list
InitFade ==
    /\ ShippedConfig
    /\ NoAxis
    /\ args \in FadeArgs
    /\ entry \in {"_fade_out_span", "_fade_in_span"}
    /\ result = None
    /\ max_slots = MAX_SLOTS
    /\ spans = <<>>
    /\ pc = "start"
    /\ sorted_spans = <<>>
    /\ i = 0
    /\ slot_free_at = <<>>
    /\ slot_allocations = EmptyMap
    /\ j = 0
    /\ span_bars = <<>>
    /\ calls = 0
    /\ first_result = EmptyMap

NextFade ==
    \/ FadeOutSpanCall
    \/ FadeInSpanCall

SpecFade == InitFade /\ [][NextFade]_vars

\* _generate_week_axis on every pair of dates, in either order
InitAxis ==
    /\ args \in [min_date : Days, max_date : Days]
    /\ entry = "_generate_week_axis"
    /\ ShippedConfig
    /\ NoAxis
    /\ result = None
    /\ max_slots = MAX_SLOTS
    /\ spans = <<>>
    /\ pc = "start"
    /\ sorted_spans = <<>>
    /\ i = 0
    /\ slot_free_at = <<>>
    /\ slot_allocations = EmptyMap
    /\ j = 0
    /\ span_bars = <<>>
    /\ calls = 0
    /\ first_result = EmptyMap

NextAxis ==
    \/ GenerateWeekAxisCall
    \/ GenerateWeekAxisStep
    \/ GenerateWeekAxisReturn

\* the function runs on its own: a step that can be taken is taken
SpecAxis == InitAxis /\ [][NextAxis]_vars /\ WF_vars(NextAxis)

\* compute_week_index on every pair of dates, then on later dates
InitWeekIndex ==
    /\ args \in [entry_date : Days, min_date : Days]
    /\ entry = "compute_week_index"
    /\ ShippedConfig
    /\ NoAxis
    /\ result = None
    /\ max_slots = MAX_SLOTS
    /\ spans = <<>>
    /\ pc = "start"
    /\ sorted_spans = <<>>
    /\ i = 0
    /\ slot_free_at = <<>>
    /\ slot_allocations = EmptyMap
    /\ j = 0
    /\ span_bars = <<>>
    /\ calls = 0
    /\ first_result = None

NextWeekIndex ==
    \/ ComputeWeekIndexCall
    \/ ComputeWeekIndexCallLater

SpecWeekIndex == InitWeekIndex /\ [][NextWeekIndex]_vars

\* extract_timeline_spans on short entry lists, then the axis of their range
InitRange ==
    /\ args \in [entries : EntryLists, min_date : {None}, max_date : {None}]
    /\ entry = "extract_timeline_spans"
    /\ ShippedConfig
    /\ NoAxis
    /\ result = None
    /\ max_slots = MAX_SLOTS
    /\ spans = <<>>
    /\ pc = "start"
    /\ sorted_spans = <<>>
    /\ i = 0
    /\ slot_free_at = <<>>
    /\ slot_allocations = EmptyMap
    /\ j = 0
    /\ span_bars = <<>>
    /\ calls = 0
    /\ first_result = EmptyMap

NextRange ==
    \/ ExtractTimelineSpansCall
    \/ ExtractTimelineSpansStep
    \/ ExtractTimelineSpansReturn
    \/ PrepareTimelineDataAxis
    \/ GenerateWeekAxisStep
    \/ GenerateWeekAxisReturn

SpecRange == InitRange /\ [][NextRange]_vars

\* fade lengths a maintainer can put into the module: negative, zero, shipped
ConfigWeeks == {-1, 0, FADE_WEEKS_IN_PROGRESS, FADE_WEEKS_FINISH_ONLY}

\* _generate_bars on runs of equal spans under every such pair of fade lengths
InitConfig ==
    /\ fade_weeks_in_progress \in ConfigWeeks
    /\ fade_weeks_finish_only \in ConfigWeeks
    /\ NoAxis
    /\ args = NoArgs
    /\ result = None
    /\ max_slots = MAX_SLOTS
    /\ spans \in {MkSpans(l) : l \in BlockLists(SpanShapes, {}, MaxRun, 0)}
    /\ entry = "_generate_bars"
    /\ pc = "start"
    /\ sorted_spans = <<>>
    /\ i = 0
    /\ slot_free_at = <<>>
    /\ slot_allocations = EmptyMap
    /\ j = 0
    /\ span_bars = <<>>
    /\ calls = 0
    /\ first_result = EmptyMap

SpecConfig == InitConfig /\ [][NextBars]_vars

\* the end-to-end example family on one lane, two lanes and MAX_SLOTS lanes
InitExample ==
    InitWith({1, 2, MAX_SLOTS}, {MkSpans(l) : l \in ExampleLists},
             {"_allocate_slots"})

SpecExample == InitExample /\ [][NextAllocate]_vars


\* ---- occupied ranges, as the claims define them ----
\* the span with the given entry_idx
SpanOf(id) == spans[id + 1]

\* first occupied slice of a span
OccupyStart(span) ==
    IF HasStart(span) THEN span.start_week * SLICES_PER_WEEK
    ELSE (span.end_week + 1) * SLICES_PER_WEEK - FadeInLen

\* slice after the last occupied slice of a span
OccupyEnd(span) ==
    IF HasEnd(span) THEN (span.end_week + 1) * SLICES_PER_WEEK
    ELSE span.start_week * SLICES_PER_WEEK + FadeOutLen

\* the fade-out and fade-in regions of a long span, and the gap between them
FadeOutRange(span) ==
    OccupyStart(span)..(OccupyStart(span) + DurationOut(DurationSlices(span)) - 1)

FadeInRange(span) ==
    (OccupyEnd(span) - DurationIn(DurationSlices(span)))..(OccupyEnd(span) - 1)

GapRange(span) ==
    (OccupyStart(span) + DurationOut(DurationSlices(span)))
        ..(OccupyEnd(span) - DurationIn(DurationSlices(span)) - 1)

\* all slices a span occupies, whichever lane they are on
OccupiedRange(span) ==
    IF IsLong(span) THEN FadeOutRange(span) \cup FadeInRange(span)
    ELSE OccupyStart(span)..(OccupyEnd(span) - 1)

\* lane of the fade-out (or only) region and of the fade-in (or only) region
OutLane(v) == IF IsDict(v) THEN v.fade_out_slot ELSE v.slot

InLane(v) == IF IsDict(v) THEN v.fade_in_slot ELSE v.slot

\* slices an assigned span occupies on one lane
OccupiedOn(id, lane) ==
    LET span == SpanOf(id)
        v == slot_allocations[id]
    IN  IF IsDict(v)
        THEN (IF v.fade_out_slot = lane THEN FadeOutRange(span) ELSE {})
             \cup (IF v.fade_in_slot = lane THEN FadeInRange(span) ELSE {})
        ELSE IF v.slot = lane THEN OccupyStart(span)..(OccupyEnd(span) - 1)
             ELSE {}

Lanes == 0..(max_slots - 1)

Assigned == DOMAIN slot_allocations

\* ---- C1 ----
\* C1: any two distinct spans of the result map that share a slot occupy
\* disjoint slice ranges on it (both sub-ranges of a split span count).
C1_NoOverlap ==
    \A a \in Assigned : \A b \in Assigned :
        a # b => \A lane \in Lanes : OccupiedOn(a, lane) \cap OccupiedOn(b, lane) = {}

\* ---- C2 ----
\* the input is n copies of one two-sided span that ends no earlier than it starts
IdenticalProper(n) ==
    /\ Len(spans) = n
    /\ \A k \in 1..n :
          /\ spans[k].start_week = spans[1].start_week
          /\ spans[k].end_week = spans[1].end_week
    /\ HasStart(spans[1]) /\ HasEnd(spans[1])
    /\ spans[1].start_week <= spans[1].end_week

\* C2: MAX_SLOTS + k identical spans (k >= 1): the call returns, exactly MAX_SLOTS
\* of them are in the map, on pairwise different slots, the other k are absent.
C2_Capacity ==
    /\ (pc # "done" /\ \E k \in 1..MaxExtra : IdenticalProper(MAX_SLOTS + k))
       => ENABLED NextAllocate
    /\ (pc = "done" /\ \E k \in 1..MaxExtra : IdenticalProper(MAX_SLOTS + k))
       => /\ Cardinality(Assigned) = MAX_SLOTS
          /\ \A a \in Assigned : \A b \in Assigned :
                a # b => /\ OutLane(slot_allocations[a]) # OutLane(slot_allocations[b])
                         /\ InLane(slot_allocations[a]) # InLane(slot_allocations[b])
          /\ Cardinality({k \in 1..Len(spans) : spans[k].entry_idx \notin Assigned})
                = Len(spans) - MAX_SLOTS

C2_Witness ==
    /\ pc = "done"
    /\ IdenticalProper(MAX_SLOTS + MaxExtra)
    /\ Cardinality(Assigned) = MAX_SLOTS
    /\ MAX_SLOTS + 1 \notin Assigned


\* ---- C3 ----
\* the span the next AllocateSlotsStep processes
NextSpan == sorted_spans[i + 1]

\* entry_idx of the spans _allocate_slots has processed so far
ProcessedIds == {sorted_spans[k].entry_idx : k \in 1..i}

\* position of a span in the list _allocate_slots iterates over
PosOf(id) == CHOOSE k \in 1..Len(sorted_spans) : sorted_spans[k].entry_idx = id

Dropped == ProcessedIds \ Assigned

\* every step, whatever was dropped before it, assigns its span when some lane
\* is free at the span's first slice
C3_StepAssigns ==
    AllocateSlotsStep =>
        ((\E lane \in Lanes : slot_free_at[lane] <= OccupyStart(NextSpan))
            => NextSpan.entry_idx \in DOMAIN slot_allocations')

\* on a single lane the example drops its second span and keeps the other two
C3_Example ==
    (pc = "done" /\ max_slots = 1) => Assigned = {0, 2}

\* C3: a drop does not stop the pass: every later span is still processed and is
\* assigned if a lane is free at its start; with one lane and A, B overlapping A,
\* C after both, B is absent from the map while A and C are assigned.
C3_DropNotFatal ==
    /\ [][C3_StepAssigns]_vars
    /\ [](pc = "done" => i = Len(sorted_spans))
    /\ []C3_Example

C3_Witness ==
    /\ pc = "done" /\ max_slots = 1
    /\ <<spans[1].start_week, spans[1].end_week>> = <<0, 2>>
    /\ <<spans[2].start_week, spans[2].end_week>> = <<1, 3>>
    /\ <<spans[3].start_week, spans[3].end_week>> = <<5, 7>>
    /\ Dropped = {1}
    /\ Assigned = {0, 2}

\* ---- C4 ----
\* both regions of an assigned span are on lane s
OnSlot(id, s) ==
    /\ id \in Assigned
    /\ OutLane(slot_allocations[id]) = s
    /\ InLane(slot_allocations[id]) = s

\* C4 as stated: with at least two lanes the example's three spans are all
\* assigned, the first on slot 0, the second on slot 1, the third on slot 0.
C4_Original ==
    (pc = "done" /\ max_slots >= 2) => (OnSlot(0, 0) /\ OnSlot(1, 1) /\ OnSlot(2, 0))

\* C4 amended: the first on slot 0, the second with its fade-out (or only) region
\* on slot 1 and its fade-in region, when it is split, on slot 0 or 1, the third
\* on slot 0.
C4_Example ==
    (pc = "done" /\ max_slots >= 2) =>
        /\ OnSlot(0, 0)
        /\ 1 \in Assigned
        /\ OutLane(slot_allocations[1]) = 1
        /\ InLane(slot_allocations[1]) \in {0, 1}
        /\ (~IsLong(SpanOf(1)) => OnSlot(1, 1))
        /\ OnSlot(2, 0)

C4_Witness ==
    /\ pc = "done" /\ max_slots = 2
    /\ <<spans[1].start_week, spans[1].end_week>> = <<0, 2>>
    /\ <<spans[2].start_week, spans[2].end_week>> = <<1, 3>>
    /\ <<spans[3].start_week, spans[3].end_week>> = <<5, 7>>
    /\ slot_allocations = (0 :> IntSlot(0)) @@ (1 :> IntSlot(1)) @@ (2 :> IntSlot(0))

\* ---- C5 ----
\* C5: a span is omitted from the map only when every lane already holds an
\* earlier assigned span whose occupied range intersects the omitted span's.
C5_DropOnlyWhenFull ==
    \A d \in Dropped : \A lane \in Lanes :
        \E a \in Assigned :
            /\ PosOf(a) < PosOf(d)
            /\ OccupiedOn(a, lane) \cap OccupiedRange(SpanOf(d)) # {}

\* ---- C6 ----
\* C6: a run over a single span with a start or an end assigns it to slot 0,
\* and _generate_bars emits its bars with slot 0.
C6_SingleSpanSlotZero ==
    (pc = "done" /\ Len(spans) = 1) =>
        /\ OnSlot(0, 0)
        /\ entry = "_generate_bars" =>
              /\ \A k \in 1..Len(span_bars) :
                    span_bars[k].entry_id = 0 /\ span_bars[k].slot = 0
              /\ OccupiedRange(SpanOf(0)) # {} => span_bars # <<>>


\* ---- C7 ----
\* slices of a range that some assigned span other than `id` occupies on a lane
TakenByOthers(id, lane, range) ==
    {x \in range : \E a \in Assigned \ {id} : x \in OccupiedOn(a, lane)}

\* C7: the gap of a split span stays available on the lane it uses: a span
\* processed later that fits into the gap is not turned away while the gap
\* slices it needs are unoccupied on the split span's lane.
C7_GapReusable ==
    \A l \in Assigned : \A g \in Dropped :
        (/\ IsDict(slot_allocations[l])
         /\ PosOf(l) < PosOf(g)
         /\ OccupiedRange(SpanOf(g)) # {}
         /\ OccupiedRange(SpanOf(g)) \subseteq GapRange(SpanOf(l)))
        => TakenByOthers(l, slot_allocations[l].fade_out_slot,
                         OccupiedRange(SpanOf(g))) # {}

FreeAtForFadeIn(span, v) ==
    IF v.fade_in_slot = v.fade_out_slot
    THEN OccupyStart(span) + DurationOut(DurationSlices(span))
    ELSE slot_free_at[v.fade_in_slot]

\* C8 amended: no spacing slice is enforced: a region is placed on a lane exactly
\* when the lane's free-at slice, the exclusive end of the region last placed
\* there, is at or before the region's first slice, so the next span may start
\* on the very slice at which the previous one ended.
C8_StepRespectsFreeAt ==
    AllocateSlotsStep =>
        (NextSpan.entry_idx \in DOMAIN slot_allocations' =>
            LET v == slot_allocations'[NextSpan.entry_idx]
            IN  /\ slot_free_at[OutLane(v)] <= OccupyStart(NextSpan)
                /\ IsDict(v) =>
                      FreeAtForFadeIn(NextSpan, v)
                          <= OccupyEnd(NextSpan) - DurationIn(DurationSlices(NextSpan)))

C9_FreshState ==
    /\ (pc = "allocate" /\ i = 0) =>
          (slot_allocations = EmptyMap /\ \A lane \in Lanes : slot_free_at[lane] = 0)
    /\ (pc = "done" /\ entry = "_allocate_slots" /\ calls >= 2) =>
          slot_allocations = first_result

C9_Witness ==
    /\ pc = "done" /\ entry = "_allocate_slots" /\ calls = 2
    /\ Len(spans) = 2
    /\ Cardinality(Assigned) = 1
    /\ slot_allocations = first_result

\* ---- C10 ----
\* a value of the result map: an integer slot or a complete pair of slots
WellShaped(v) ==
    \/ DOMAIN v = {"slot"} /\ v.slot \in 0..(MAX_SLOTS - 1)
    \/ /\ DOMAIN v = {"fade_out_slot", "fade_in_slot"}
       /\ v.fade_out_slot \in 0..(MAX_SLOTS - 1)
       /\ v.fade_in_slot \in 0..(MAX_SLOTS - 1)

\* C10: every map value is a slot in 0..MAX_SLOTS-1 or a pair of two such slots
\* (a pair exactly for the long spans), and every bar's slot is in 0..MAX_SLOTS-1.
C10_Shape ==
    /\ \A id \in Assigned :
          /\ WellShaped(slot_allocations[id])
          /\ IsDict(slot_allocations[id]) <=> IsLong(SpanOf(id))
    /\ \A k \in 1..Len(span_bars) : span_bars[k].slot \in 0..(MAX_SLOTS - 1)

C10_Witness ==
    /\ pc = "done" /\ entry = "_generate_bars"
    /\ \E d \in Dropped :
          /\ IsLong(SpanOf(d))
          /\ \E a \in Assigned : PosOf(a) < PosOf(d) /\
                OccupyEnd(SpanOf(a)) <= OccupyEnd(SpanOf(d)) - FadeInLen
    /\ \E a \in Assigned : IsDict(slot_allocations[a])
    /\ \E a \in Assigned : ~IsDict(slot_allocations[a])
    /\ \E k \in 1..Len(span_bars) : span_bars[k].slot = MAX_SLOTS - 1

\* ---- C11 ----
\* the whole loop of _allocate_slots over a list
RECURSIVE AllocateAll(_, _, _)
AllocateAll(free, alloc, seq) ==
    IF seq = <<>> THEN alloc
    ELSE LET r == AllocateSpan(free, alloc, Head(seq))
         IN  AllocateAll(r.free, r.alloc, Tail(seq))

\* the whole bar loop of _generate_bars over a list
RECURSIVE BarsAll(_, _)
BarsAll(alloc, seq) ==
    IF seq = <<>> THEN <<>>
    ELSE BarsOfSpan(alloc, Head(seq)) \o BarsAll(alloc, Tail(seq))

\* the bars _generate_bars returns for a list its sort accepts
GenerateBarsOf(list) ==
    BarsAll(AllocateAll(AllFree, EmptyMap, SortSpans(list)), list)

\* the list without its malformed spans
WellFormedOnly(list) == SelectSeq(list, LAMBDA span : ~Malformed(span))

\* C11: on a list holding a span without any date next to well-formed spans,
\* _generate_bars does not raise, emits no bar for the malformed span and emits
\* for the others the bars it emits for the list without the malformed span.
C11_MalformedSkipped ==
    (\E k \in 1..Len(spans) : Malformed(spans[k])) =>
        /\ pc # "error"
        /\ pc = "done" =>
              /\ \A k \in 1..Len(span_bars) :
                    ~Malformed(SpanOf(span_bars[k].entry_id))
              /\ span_bars = GenerateBarsOf(WellFormedOnly(spans))

\* ---- C12 ----
\* the bars carrying one span's entry_id, in the order they were emitted
BarsFor(id) == SelectSeq(span_bars, LAMBDA bar : bar.entry_id = id)

\* the slices at which a span has a bar
BarSlices(id) == {BarsFor(id)[k].bar_base : k \in 1..Len(BarsFor(id))}

\* C12: a span absent from the allocation map has no bar at all, neither
\* fade-out nor fade-in, while every assigned span has its bars: one on each
\* slice of its occupied range.
C12_NoPartialOutput ==
    (pc = "done" /\ entry = "_generate_bars") =>
        \A k \in 1..Len(spans) :
            LET id == spans[k].entry_idx
            IN  IF id \in Assigned
                THEN /\ BarSlices(id) = OccupiedRange(spans[k])
                     /\ Len(BarsFor(id)) = Cardinality(OccupiedRange(spans[k]))
                ELSE BarsFor(id) = <<>>

\* every slot is taken, a short and a long span were dropped or kept around it
C12_Witness ==
    /\ pc = "done" /\ entry = "_generate_bars"
    /\ Cardinality(Assigned) = MAX_SLOTS
    /\ \E d \in Dropped : OccupiedRange(SpanOf(d)) # {} /\ BarsFor(d) = <<>>
    /\ \A a \in Assigned : BarsFor(a) # <<>>

\* ---- C13 ----
\* the bars are unit bars on consecutive slices, the first one at slice `first`
Consecutive(bars, first) ==
    \A k \in 1..Len(bars) : bars[k].bar_base = first + k - 1 /\ bars[k].bar_y = 1

\* C13: an assigned start-only span has exactly FADE_WEEKS_IN_PROGRESS *
\* SLICES_PER_WEEK unit bars on consecutive slices from start_week *
\* SLICES_PER_WEEK, the first at MAX_OPACITY and the last at MIN_OPACITY; an
\* assigned end-only span has exactly FADE_WEEKS_FINISH_ONLY * SLICES_PER_WEEK
\* unit bars on consecutive slices ending at (end_week + 1) * SLICES_PER_WEEK - 1,
\* the first at MIN_OPACITY and the last at MAX_OPACITY.
C13_OneSidedRamp ==
    (pc = "done" /\ entry = "_generate_bars") =>
        \A id \in Assigned :
            LET span == SpanOf(id)
                bars == BarsFor(id)
            IN  /\ (HasStart(span) /\ ~HasEnd(span)) =>
                      /\ Len(bars) = FADE_WEEKS_IN_PROGRESS * SLICES_PER_WEEK
                      /\ Consecutive(bars, span.start_week * SLICES_PER_WEEK)
                      /\ bars[1].opacity = MAX_OPACITY
                      /\ bars[Len(bars)].opacity = MIN_OPACITY
                /\ (~HasStart(span) /\ HasEnd(span)) =>
                      /\ Len(bars) = FADE_WEEKS_FINISH_ONLY * SLICES_PER_WEEK
                      /\ Consecutive(bars, (span.end_week + 1) * SLICES_PER_WEEK
                                             - FADE_WEEKS_FINISH_ONLY * SLICES_PER_WEEK)
                      /\ bars[Len(bars)].bar_base
                            = (span.end_week + 1) * SLICES_PER_WEEK - 1
                      /\ bars[1].opacity = MIN_OPACITY
                      /\ bars[Len(bars)].opacity = MAX_OPACITY

\* a start-only and an end-only span, both assigned and both drawn
C13_Witness ==
    /\ pc = "done" /\ entry = "_generate_bars"
    /\ \E a \in Assigned : \E b \in Assigned :
          /\ HasStart(SpanOf(a)) /\ ~HasEnd(SpanOf(a))
          /\ ~HasStart(SpanOf(b)) /\ HasEnd(SpanOf(b))
          /\ Len(BarsFor(a)) = FadeOutLen /\ Len(BarsFor(b)) = FadeInLen

\* ---- C14 ----
\* C14: for 0 <= n <= FADE_WEEKS_FINISH_ONLY * SLICES_PER_WEEK, _fade_in_span
\* appends exactly n bars, on the n consecutive slices ending at
\* (end_week + 1) * SLICES_PER_WEEK - 1, with the last n samples of the full
\* MIN-to-MAX ramp in order; n = 0 appends no bar.
C14_FadeInTruncation ==
    (entry = "_fade_in_span" /\ calls >= 1
        /\ args.duration_slices <= FADE_WEEKS_FINISH_ONLY * SLICES_PER_WEEK) =>
        LET n == args.duration_slices
        IN  /\ Len(span_bars) = calls * n
            /\ \A k \in 1..Len(span_bars) :
                  LET q == (k - 1) % n
                  IN  /\ span_bars[k].bar_base
                            = (args.week + 1) * SLICES_PER_WEEK - n + q
                      /\ span_bars[k].bar_y = 1
                      /\ span_bars[k].opacity =
                            Linspace(MIN_OPACITY, MAX_OPACITY, FadeInLen,
                                     FadeInLen - n + q)

\* ---- C15 ----
\* C15: whatever the truncation length, the opacities of the bars a fade-out
\* emits never rise from one slice to a later one, and those of a fade-in
\* never fall.
C15_Monotone ==
    \A a \in 1..Len(span_bars) : \A b \in 1..Len(span_bars) :
        span_bars[a].bar_base <= span_bars[b].bar_base =>
            /\ entry = "_fade_out_span" =>
                  span_bars[a].opacity >= span_bars[b].opacity
            /\ entry = "_fade_in_span" =>
                  span_bars[a].opacity <= span_bars[b].opacity

\* a fade-out cut to five bars that ends below where it started
C15_Witness ==
    /\ entry = "_fade_out_span" /\ calls = 1
    /\ args.duration_slices = 5
    /\ Len(span_bars) = 5
    /\ span_bars[1].opacity = MAX_OPACITY
    /\ span_bars[5].opacity < span_bars[1].opacity

\* ---- C16 ----
\* an assigned two-sided span that is drawn and is short enough not to be split
ShortDrawn(id) ==
    /\ id \in Assigned
    /\ HasStart(SpanOf(id)) /\ HasEnd(SpanOf(id))
    /\ SpanOf(id).start_week <= SpanOf(id).end_week
    /\ DurationSlices(SpanOf(id)) <= FadeOutLen + FadeInLen

\* C16: for a two-sided span that is not split (its duration in slices is
\* even), the last fade-out bar and the first fade-in bar have the same opacity,
\* the k-th bar from the start and the k-th bar from the end have the same
\* opacity, and every opacity value occurs exactly twice among the span's bars.
C16_SeamSymmetry ==
    (pc = "done" /\ entry = "_generate_bars") =>
        \A id \in Assigned :
            (ShortDrawn(id) /\ DurationSlices(SpanOf(id)) % 2 = 0) =>
                LET bars == BarsFor(id)
                    n == Len(bars)
                    half == DurationOut(DurationSlices(SpanOf(id)))
                IN  /\ n = 2 * half
                    /\ bars[half].opacity = bars[half + 1].opacity
                    /\ \A k \in 1..n : bars[k].opacity = bars[n + 1 - k].opacity
                    /\ \A k \in 1..n :
                          Cardinality({l \in 1..n : bars[l].opacity = bars[k].opacity}) = 2

\* a three-week span next to another span: its twelve bars meet at 0.6
C16_Witness ==
    /\ pc = "done" /\ entry = "_generate_bars" /\ Len(spans) = 2
    /\ \E id \in Assigned :
          /\ ShortDrawn(id)
          /\ DurationSlices(SpanOf(id)) = 3 * SLICES_PER_WEEK
          /\ Len(BarsFor(id)) = 12
          /\ BarsFor(id)[6].opacity = 60 /\ BarsFor(id)[7].opacity = 60

\* ---- C17 ----
\* C17: for an assigned two-sided span with start_week <= end_week whose
\* duration does not exceed the two fade lengths together, duration_in +
\* duration_out = duration_slices and the span has exactly duration_slices unit
\* bars, one on each slice from start_week * SLICES_PER_WEEK to
\* (end_week + 1) * SLICES_PER_WEEK - 1, none missing and none covered twice.
C17_Truncation ==
    (pc = "done" /\ entry = "_generate_bars") =>
        \A id \in Assigned :
            ShortDrawn(id) =>
                LET span == SpanOf(id)
                    duration_slices == DurationSlices(span)
                    bars == BarsFor(id)
                IN  /\ DurationIn(duration_slices) + DurationOut(duration_slices)
                          = duration_slices
                    /\ Len(bars) = duration_slices
                    /\ Consecutive(bars, span.start_week * SLICES_PER_WEEK)
                    /\ bars[Len(bars)].bar_base
                          = (span.end_week + 1) * SLICES_PER_WEEK - 1

\* a span of exactly the two fade lengths: 32 bars, none in between missing
C17_Witness ==
    /\ pc = "done" /\ entry = "_generate_bars"
    /\ \E id \in Assigned :
          /\ ShortDrawn(id)
          /\ DurationSlices(SpanOf(id)) = FadeOutLen + FadeInLen
          /\ Len(BarsFor(id)) = FadeOutLen + FadeInLen
          /\ ~IsDict(slot_allocations[id])

\* ---- C18 ----
\* C18: an assigned two-sided span longer than the two fade lengths together
\* has exactly a full fade-out from its first slice and a full fade-in up to
\* its last slice, no bar on any slice in between, the last fade-out bar and
\* the first fade-in bar both at MIN_OPACITY, and at least one empty slice
\* between the two.
C18_MiddleUnrendered ==
    (pc = "done" /\ entry = "_generate_bars") =>
        \A id \in Assigned :
            LET span == SpanOf(id)
                bars == BarsFor(id)
                first == span.start_week * SLICES_PER_WEEK
                last == (span.end_week + 1) * SLICES_PER_WEEK - 1
            IN  (/\ HasStart(span) /\ HasEnd(span)
                 /\ DurationSlices(span) > FadeOutLen + FadeInLen) =>
                    /\ Len(bars) = FadeOutLen + FadeInLen
                    /\ Consecutive(SubSeq(bars, 1, FadeOutLen), first)
                    /\ Consecutive(SubSeq(bars, FadeOutLen + 1, Len(bars)),
                                   last - FadeInLen + 1)
                    /\ BarSlices(id) \cap ((first + FadeOutLen)..(last - FadeInLen)) = {}
                    /\ (first + FadeOutLen)..(last - FadeInLen) # {}
                    /\ bars[FadeOutLen].opacity = MIN_OPACITY
                    /\ bars[FadeOutLen + 1].opacity = MIN_OPACITY

\* a ten-week span: sixteen bars, eight empty slices, sixteen bars
C18_Witness ==
    /\ pc = "done" /\ entry = "_generate_bars"
    /\ \E id \in Assigned :
          /\ IsDict(slot_allocations[id])
          /\ DurationSlices(SpanOf(id)) = 10 * SLICES_PER_WEEK
          /\ Len(BarsFor(id)) = FadeOutLen + FadeInLen
          /\ BarsFor(id)[FadeOutLen].bar_base + 9 = BarsFor(id)[FadeOutLen + 1].bar_base

\* ---- C19 ----
\* what _generate_week_axis returned for min_date <= max_date, or for
\* max_date < min_date
C19_Returned ==
    (pc = "done" /\ entry = "_generate_week_axis") =>
        IF args.min_date <= args.max_date
        THEN /\ Len(result) =
                  SLICES_PER_WEEK * ((args.max_date - args.min_date) \div 7 + 1)
             /\ \A k \in 1..Len(result) :
                   LET week_start == args.min_date + 7 * ((k - 1) \div SLICES_PER_WEEK)
                   IN  /\ result[k].week_index = k - 1
                       /\ result[k].year = YearOf(week_start)
                       /\ result[k].week_label = MonthLabel(week_start)
        ELSE result = <<>>

\* C19: for min_date <= max_date _generate_week_axis terminates and returns
\* SLICES_PER_WEEK * (floor(days(max_date - min_date) / 7) + 1) descriptors with
\* week_index 0, 1, 2, ... without gaps, the SLICES_PER_WEEK slices of a week
\* carrying the year and label of the week's start date; for max_date <
\* min_date it returns no descriptor.
C19_Axis == []C19_Returned /\ <>(pc = "done")

\* five weeks from 2023-12-11 to 2024-01-08: the fourth starts on 2024-01-01
C19_Witness ==
    /\ pc = "done" /\ entry = "_generate_week_axis"
    /\ args.min_date = 10 /\ args.max_date = 38
    /\ Len(result) = 5 * SLICES_PER_WEEK
    /\ result[12].year = 2023 /\ result[12].week_label = "Dec"
    /\ result[13].year = 2024 /\ result[13].week_label = "Jan"
    /\ result[20].week_index = 19

\* ---- C20 ----
\* days(date - min_date)
DaysSince(date, min_date) == date - min_date

\* C20: compute_week_index(date, min_date) is floor(days / 7) for a date that
\* is not a Sunday and floor((days + 1) / 7) for a Sunday; it never decreases
\* when the date moves on; with min_date a Monday, Monday..Saturday of week k
\* give k and the Sunday closing week k gives k + 1.
C20_WeekIndex ==
    (pc = "done" /\ entry = "compute_week_index") =>
        LET days == DaysSince(args.entry_date, args.min_date)
        IN  /\ Weekday(args.entry_date) # 6 => result = days \div 7
            /\ Weekday(args.entry_date) = 6 => result = (days + 1) \div 7
            /\ first_result <= result
            /\ (Weekday(args.min_date) = 0 /\ days >= 0) =>
                  \E k \in 0..MaxDay :
                      /\ days \in (7 * k)..(7 * k + 6)
                      /\ days <= 7 * k + 5 => result = k
                      /\ days = 7 * k + 6 => result = k + 1

\* min_date Monday 2023-12-04; a Saturday gave 1, the day after it gives 2
C20_Witness ==
    /\ pc = "done" /\ entry = "compute_week_index" /\ calls = 2
    /\ args.min_date = 3 /\ args.entry_date = 16
    /\ Weekday(args.entry_date) = 6
    /\ first_result = 1 /\ result = 2

\* ---- C21 ----
\* the fade-in or the fade-out length the module holds is zero or negative
BadFadeConfig == FadeInLen <= 0 \/ FadeOutLen <= 0

\* C21: with a fade-in or fade-out length of zero or less the program is in an
\* error state from the start: no span is ever allocated and no bar emitted.
C21_FailFast ==
    BadFadeConfig =>
        /\ pc \in {"start", "error"}
        /\ slot_allocations = EmptyMap
        /\ span_bars = <<>>

\* ---- C22 ----
\* a two-sided span whose duration exceeds the two fade lengths together by
\* more than one slice
ExceedsByMoreThanOne(span) ==
    /\ HasStart(span) /\ HasEnd(span)
    /\ DurationSlices(span) > FadeOutLen + FadeInLen + 1

\* the bars of a span leave some slice between its first and last bar empty
RenderedSplit(id) ==
    /\ BarsFor(id) # <<>>
    /\ Len(BarsFor(id)) <
          BarsFor(id)[Len(BarsFor(id))].bar_base - BarsFor(id)[1].bar_base + 1

\* C22: an assigned span holds a {fade_out_slot, fade_in_slot} pair exactly
\* when it is two-sided and its duration exceeds fade-out length + fade-in
\* length by more than one slice, every other assigned span holds one integer
\* slot, and _generate_bars draws a span as split exactly when it was
\* allocated as split.
C22_SplitClassification ==
    /\ \A id \in Assigned :
          /\ IsDict(slot_allocations[id]) <=> ExceedsByMoreThanOne(SpanOf(id))
          /\ ~IsDict(slot_allocations[id]) => DOMAIN slot_allocations[id] = {"slot"}
    /\ (pc = "done" /\ entry = "_generate_bars") =>
          \A id \in Assigned : RenderedSplit(id) <=> IsDict(slot_allocations[id])

\* eight weeks on one slot, nine weeks as a pair, both drawn accordingly
C22_Witness ==
    /\ pc = "done" /\ entry = "_generate_bars"
    /\ \E a \in Assigned : \E b \in Assigned :
          /\ DurationSlices(SpanOf(a)) = FadeOutLen + FadeInLen
          /\ ~IsDict(slot_allocations[a]) /\ ~RenderedSplit(a)
          /\ HasStart(SpanOf(b)) /\ HasEnd(SpanOf(b))
          /\ DurationSlices(SpanOf(b)) = FadeOutLen + FadeInLen + SLICES_PER_WEEK
          /\ IsDict(slot_allocations[b]) /\ RenderedSplit(b)

\* ---- C23 ----
\* C23: _generate_bars hands the spans to the allocator in non-decreasing order
\* of their earliest occupied slice (start_week * SLICES_PER_WEEK, or
\* (end_week + 1) * SLICES_PER_WEEK - fade-in length for an end-only span): no
\* span is allocated before another whose occupied range begins earlier.
C23_ProcessingOrder ==
    (entry = "_generate_bars" /\ pc \in {"allocate", "bars", "done"}) =>
        \A k \in 1..Len(sorted_spans) : \A l \in 1..Len(sorted_spans) :
            k < l => OccupyStart(sorted_spans[k]) <= OccupyStart(sorted_spans[l])

\* ---- C24 ----
\* the free-at values the fade-in search of a split span sees: the fade-out
\* half of the same span has been reserved by then
FreeAtAfterFadeOut(span, v) ==
    [s \in Lanes |->
        IF s = v.fade_out_slot
        THEN OccupyStart(span) + DurationOut(DurationSlices(span))
        ELSE slot_free_at[s]]

\* C24 as stated: the lane a span receives has, before the assignment, the
\* smallest free-at value of all lanes.
C24_StepEarliestFree ==
    AllocateSlotsStep =>
        (NextSpan.entry_idx \in DOMAIN slot_allocations' =>
            LET v == slot_allocations'[NextSpan.entry_idx]
            IN  /\ \A s \in Lanes : slot_free_at[OutLane(v)] <= slot_free_at[s]
                /\ IsDict(v) =>
                      \A s \in Lanes :
                          FreeAtAfterFadeOut(NextSpan, v)[v.fade_in_slot]
                              <= FreeAtAfterFadeOut(NextSpan, v)[s])

C24_Original == [][C24_StepEarliestFree]_vars

\* the lane a span receives became free earlier than every lower-numbered lane
C24_StepEarliestAmongLower ==
    AllocateSlotsStep =>
        (NextSpan.entry_idx \in DOMAIN slot_allocations' =>
            LET v == slot_allocations'[NextSpan.entry_idx]
            IN  /\ \A s \in 0..(OutLane(v) - 1) :
                      slot_free_at[OutLane(v)] < slot_free_at[s]
                /\ IsDict(v) =>
                      \A s \in 0..(v.fade_in_slot - 1) :
                          FreeAtAfterFadeOut(NextSpan, v)[v.fade_in_slot]
                              < FreeAtAfterFadeOut(NextSpan, v)[s])

\* C24 amended: the lane a span receives is earliest-free only among the lanes
\* numbered no higher than itself: its free-at value is below that of every
\* lower-numbered lane, while higher-numbered lanes that became free earlier
\* (or were never used) are passed over.
C24_EarliestAmongLower == [][C24_StepEarliestAmongLower]_vars

\* the third span sits on lane 0 again, freed at the end of the first span,
\* while lanes 2, 3, 4 have been free all along
C24_Witness ==
    /\ pc = "done" /\ max_slots = MAX_SLOTS
    /\ Assigned = {0, 1, 2}
    /\ OnSlot(0, 0) /\ OnSlot(1, 1) /\ OnSlot(2, 0)
    /\ ~IsLong(SpanOf(0))
    /\ slot_free_at[2] = 0 /\ slot_free_at[3] = 0 /\ slot_free_at[4] = 0

\* ---- C25 ----
\* lane is the lowest-numbered lane whose free-at value in `free` is <= t
LowestFreeLane(free, lane, t) ==
    /\ free[lane] <= t
    /\ \A s \in 0..(lane - 1) : free[s] > t

\* every assigned span, and each half of a split span, is on the lowest lane
\* that is free at its first slice
C25_StepLowestIndex ==
    AllocateSlotsStep =>
        (NextSpan.entry_idx \in DOMAIN slot_allocations' =>
            LET v == slot_allocations'[NextSpan.entry_idx]
            IN  /\ LowestFreeLane(slot_free_at, OutLane(v), OccupyStart(NextSpan))
                /\ IsDict(v) =>
                      LowestFreeLane(FreeAtAfterFadeOut(NextSpan, v), v.fade_in_slot,
                          OccupyEnd(NextSpan) - DurationIn(DurationSlices(NextSpan))))

\* C25: a simple span that is assigned receives the lowest-numbered lane whose
\* free-at value is <= its first slice; for a split span the rule is applied
\* to the fade-out half at the span's first slice and then to the fade-in half
\* at the fade-in start.
C25_LowestIndexFirstFit == [][C25_StepLowestIndex]_vars

\* the last lane is in use, and a split span has its fade-in on a lower lane
\* than its fade-out
C25_Witness ==
    /\ pc = "done"
    /\ \E a \in Assigned : OnSlot(a, MAX_SLOTS - 1)
    /\ \E b \in Assigned :
          /\ IsDict(slot_allocations[b])
          /\ slot_allocations[b].fade_in_slot < slot_allocations[b].fade_out_slot

\* ---- C26 ----
\* spans that _allocate_slots has not reached yet when it processes NextSpan
LaterSpans == {sorted_spans[k] : k \in (i + 2)..Len(sorted_spans)}

\* when a step records the fade-in lane of a split span, no span that starts
\* before the fade-in start is still waiting to be processed
C26_StepOwnOccupyTime ==
    AllocateSlotsStep =>
        ((/\ NextSpan.entry_idx \in DOMAIN slot_allocations'
          /\ IsDict(slot_allocations'[NextSpan.entry_idx]))
            => \A later \in LaterSpans :
                  OccupyStart(later) >=
                      OccupyEnd(NextSpan) - DurationIn(DurationSlices(NextSpan)))

\* C26: the lane of the fade-in half of a split span is chosen only after
\* every span whose occupied range starts before the fade-in start has been
\* processed, with the lane availability of that moment.
C26_FadeInAtOwnOccupyTime == [][C26_StepOwnOccupyTime]_vars

\* ---- C27 ----
\* every span of the input has both weeks set and does not end before it starts
AllProper ==
    \A k \in 1..Len(spans) :
        /\ HasStart(spans[k]) /\ HasEnd(spans[k])
        /\ spans[k].start_week <= spans[k].end_week

\* every bar lies in the range reserved for its span on the bar's slot
BarsInsideReservation ==
    \A k \in 1..Len(span_bars) :
        /\ span_bars[k].entry_id \in Assigned
        /\ span_bars[k].bar_base \in OccupiedOn(span_bars[k].entry_id, span_bars[k].slot)

\* no two bars of different spans share slot and bar_base
NoBarCollision ==
    \A k \in 1..Len(span_bars) : \A m \in 1..Len(span_bars) :
        span_bars[k].entry_id # span_bars[m].entry_id =>
            ~(/\ span_bars[k].slot = span_bars[m].slot
              /\ span_bars[k].bar_base = span_bars[m].bar_base)

\* C27: for a list of two-sided spans with start_week <= end_week, every bar
\* _generate_bars emits lies inside the slice range _allocate_slots reserved
\* for its span on the bar's slot, and no two bars of different spans have the
\* same slot and the same bar_base.
C27_BarsNeverCollide ==
    (pc = "done" /\ entry = "_generate_bars" /\ AllProper) =>
        (BarsInsideReservation /\ NoBarCollision)

\* bars of two different spans lie on one slot, and a split span has drawn
\* its two halves on different slots
C27_Witness ==
    /\ pc = "done" /\ entry = "_generate_bars" /\ AllProper
    /\ \E k \in 1..Len(span_bars) : \E m \in 1..Len(span_bars) :
          /\ span_bars[k].entry_id # span_bars[m].entry_id
          /\ span_bars[k].slot = span_bars[m].slot
    /\ \E k \in 1..Len(span_bars) : \E m \in 1..Len(span_bars) :
          /\ span_bars[k].entry_id = span_bars[m].entry_id
          /\ span_bars[k].slot # span_bars[m].slot

\* ---- C28 ----
\* one processing step leaves every lane's free-at value where it was or
\* moves it forward
C28_StepFreeAtGrows ==
    AllocateSlotsStep =>
        \A s \in Lanes : slot_free_at'[s] >= slot_free_at[s]

\* C28: during one run of _allocate_slots no slot_free_at[s] decreases from
\* one processing step to the next, whatever the input list, two-sided spans
\* with end_week < start_week included.
C28_FreeAtNeverDecreases == [][C28_StepFreeAtGrows]_vars

\* ---- C29 ----
\* a step that leaves its span out of the result map leaves slot_free_at as
\* it was
C29_StepDropKeepsFreeAt ==
    AllocateSlotsStep =>
        (NextSpan.entry_idx \notin DOMAIN slot_allocations'
            => slot_free_at' = slot_free_at)

\* C29: whenever processing a span ends with the span absent from the result
\* map, slot_free_at is what it was before the span was processed; this
\* includes a long span for which no lane is free at its start but some lane
\* is free at its fade-in start.
C29_DropReservesNothing == [][C29_StepDropKeepsFreeAt]_vars

\* ---- C30 ----
\* the weeks the axis covers: 0..floor(days(max_date - min_date) / 7)
AxisWeeks == 0..((args.max_date - args.min_date) \div 7)

\* the weeks of which the returned axis holds a descriptor
EmittedWeeks ==
    {result[k].week_index \div SLICES_PER_WEEK : k \in 1..Len(result)}

\* C30: with (min_date, max_date) as _get_timeline_range returns them, every
\* entry date d has 0 <= compute_week_index(d, min_date) <=
\* floor(days(max_date - min_date) / 7), so every start_week and end_week of a
\* span is a week the axis emits, also when the latest date is a Sunday.
C30_WeekIndicesOnAxis ==
    (entry = "extract_timeline_spans" /\ args.min_date # None) =>
        /\ \A d \in AllDates(args.entries) :
              ComputeWeekIndex(d, args.min_date) \in AxisWeeks
        /\ pc = "done" =>
              \A k \in 1..Len(spans) :
                  /\ spans[k].start_week # None => spans[k].start_week \in EmittedWeeks
                  /\ spans[k].end_week # None => spans[k].end_week \in EmittedWeeks

====
